---- MODULE Spec2Model ----
(***************************************************************************)
(* A model of wardstone's NIST SP 800-57 assessment functions              *)
(* (src/src/standards/nist.rs), of the C wrappers around them, and of the  *)
(* name -> hash function conversion of the command line tool               *)
(* (src/crates/cmd/src/primitive/hash.rs).                                 *)
(*                                                                         *)
(* Every assessment is a pure function of (Context, primitive).  A         *)
(* behaviour of the model is one call: from the idle state a caller picks  *)
(* a function and its arguments, the function runs to completion, and the  *)
(* state afterwards records the arguments, the returned value and the      *)
(* memory behind the output pointer.                                       *)
(***************************************************************************)
EXTENDS Integers, FiniteSets, Sequences, TLC

VARIABLES
  pc,           \* "idle" before the call, "done" after it
  fn,           \* the name of the function that was called
  ctx,          \* the Context argument (a value for the Rust functions, a pointer for the C wrappers)
  key,          \* the primitive argument (value or pointer, as for ctx)
  alternative,  \* the output pointer of a C wrapper
  mem,          \* the memory the output pointer points to
  result,       \* the Result<T, T> the Rust function returned (NONE when it did not run)
  ret,          \* the c_int a C wrapper returned
  name,         \* the &str given to HashFunc::from
  hashFunc,     \* the HashFunc that HashFunc::from built
  standard      \* the implementor of Standard that validate_asymmetric was called on

vars == <<pc, fn, ctx, key, alternative, mem, result, ret, name, hashFunc, standard>>

----------------------------------------------------------------------------
(* Bounds of the model.                                                    *)

\* How far below and above the first value of every match arm (and of every
\* cutoff year) the inputs range.
Slack == 1

U16Max == 2^16 - 1

Max(a, b) == IF a >= b THEN a ELSE b

Around(arms) == UNION {(a - Slack)..(a + Slack - 1) : a \in arms}

----------------------------------------------------------------------------
(* Constants of nist.rs.                                                   *)

CUTOFF_YEAR == 2031
CUTOFF_YEAR_3TDEA == 2023

----------------------------------------------------------------------------
(* The primitive catalog.  The structures are used by nist.rs (key.l,      *)
(* key.n, hash.id, hash.collision_resistance(), key.id, key.security) but  *)
(* defined in the primitives module; the catalog values below follow the   *)
(* data model of the specification and the tiers that the tests of nist.rs *)
(* pin for each instance.                                                  *)

Ffc(l, n) == [l |-> l, n |-> n]

Ecc(id, security) == [id |-> id, security |-> security]
Ifc(k) == [k |-> k]

P224 == Ecc(1, 112)
P256 == Ecc(2, 128)
IFC_1024 == Ifc(1024)
IFC_2048 == Ifc(2048)

\* The Asymmetric union: a variant tag and the payload, as From<Ecc>,
\* From<Ifc> and From<Ffc> build it.
Asymmetric_Ecc(ecc) == [variant |-> "Ecc", payload |-> ecc]
Asymmetric_Ifc(ifc) == [variant |-> "Ifc", payload |-> ifc]
Asymmetric_Ffc(ffc) == [variant |-> "Ffc", payload |-> ffc]

FFC_1024_160 == Ffc(1024, 160)
FFC_2048_224 == Ffc(2048, 224)
FFC_3072_256 == Ffc(3072, 256)
FFC_7680_384 == Ffc(7680, 384)
FFC_15360_512 == Ffc(15360, 512)

Hash(id, collision, pre_image) ==
  [id |-> id, collision_resistance |-> collision, pre_image_resistance |-> pre_image]

collision_resistance(hash) == hash.collision_resistance
pre_image_resistance(hash) == hash.pre_image_resistance

BLAKE2b_256 == Hash(1, 128, 256)
BLAKE2b_384 == Hash(2, 192, 384)
BLAKE2b_512 == Hash(3, 256, 512)
BLAKE2s_256 == Hash(4, 128, 256)
MD4 == Hash(5, 64, 128)
MD5 == Hash(6, 64, 128)
RIPEMD160 == Hash(7, 80, 160)
SHA1 == Hash(8, 52, 105)
SHA224 == Hash(9, 112, 224)
SHA256 == Hash(10, 128, 256)
SHA384 == Hash(11, 192, 384)
SHA3_224 == Hash(12, 112, 224)
SHA3_256 == Hash(13, 128, 256)
SHA3_384 == Hash(14, 192, 384)
SHA3_512 == Hash(15, 256, 512)
SHA512 == Hash(16, 256, 512)
SHA512_224 == Hash(17, 112, 224)
SHA512_256 == Hash(18, 128, 256)
SHAKE128 == Hash(19, 128, 128)
SHAKE256 == Hash(20, 256, 256)
HASH_NOT_SUPPORTED == Hash(U16Max, 0, 0)

Symmetric(id, security) == [id |-> id, security |-> security]

AES128 == Symmetric(1, 128)
AES192 == Symmetric(2, 192)
AES256 == Symmetric(3, 256)
TDEA2 == Symmetric(4, 80)
TDEA3 == Symmetric(5, 112)
\* Two ciphers of the catalog that SP 800-57 does not specify.
CAMELLIA128 == Symmetric(6, 128)
DES == Symmetric(7, 56)

Context(security, year) == [security |-> security, year |-> year]

----------------------------------------------------------------------------
(* Values of the model.                                                    *)

NULL == [null |-> TRUE]
Ref(v) == [ref |-> v]
Deref(p) == p.ref

\* The output pointer, when it is not null, points to mem.
ALTERNATIVE == [ref |-> "mem"]
\* What mem holds before the call.
UNINIT == [uninit |-> TRUE]
\* The value of a variable that the call does not set.
NONE == [none |-> TRUE]

Ok(v) == [ok |-> TRUE, val |-> v]
Err(v) == [ok |-> FALSE, val |-> v]

----------------------------------------------------------------------------
(* nist.rs                                                                 *)

SPECIFIED_HASH ==
  {SHA1.id, SHA224.id, SHA256.id, SHA384.id, SHA3_224.id, SHA3_256.id,
   SHA3_384.id, SHA3_512.id, SHA512.id, SHA512_224.id, SHA512_256.id}

SPECIFIED_SYMMETRIC == {TDEA2.id, TDEA3.id, AES128.id, AES192.id, AES256.id}

\* validate_ffc with the 3072/256 arm starting at n = 224.
validate_ffc_arm_from_224(c, k) ==
  IF k.l <= 2047 /\ k.n <= 223 THEN Err(FFC_2048_224)
  ELSE IF k.l = 2048 /\ k.n = 224 THEN
    IF c.year > CUTOFF_YEAR THEN Err(FFC_3072_256) ELSE Ok(FFC_2048_224)
  ELSE IF k.l \in 2049..3072 /\ k.n \in 224..256 THEN Ok(FFC_3072_256)
  ELSE IF k.l \in 3073..7680 /\ k.n \in 257..384 THEN Ok(FFC_7680_384)
  ELSE IF k.l >= 7681 /\ k.n >= 385 THEN Ok(FFC_15360_512)
  ELSE Err(FFC_2048_224)

validate_ffc(c, k) ==
  IF k.l <= 2047 /\ k.n <= 223 THEN Err(FFC_2048_224)
  ELSE IF k.l = 2048 /\ k.n = 224 THEN
    IF c.year > CUTOFF_YEAR THEN Err(FFC_3072_256) ELSE Ok(FFC_2048_224)
  ELSE IF k.l \in 2049..3072 /\ k.n \in 225..256 THEN Ok(FFC_3072_256)
  ELSE IF k.l \in 3073..7680 /\ k.n \in 257..384 THEN Ok(FFC_7680_384)
  ELSE IF k.l >= 7681 /\ k.n >= 385 THEN Ok(FFC_15360_512)
  ELSE Err(FFC_2048_224)

\* validate_hash with the unspecified branch sharing the lowest tier's
\* recommendation.
validate_hash_unspecified_as_lowest(c, hash) ==
  LET security ==
        IF hash.id \in SPECIFIED_HASH
        THEN Max(c.security, collision_resistance(hash))
        ELSE 0
  IN
  IF security <= 111 THEN
    IF c.year > CUTOFF_YEAR THEN Err(SHA256) ELSE Err(SHA224)
  ELSE IF security = 112 THEN
    IF c.year > CUTOFF_YEAR THEN Err(SHA256) ELSE Ok(SHA224)
  ELSE IF security \in 113..128 THEN Ok(SHA256)
  ELSE IF security \in 129..192 THEN Ok(SHA384)
  ELSE Ok(SHA512)

\* validate_hash returning a compliant input itself instead of the
\* instance that stands for its tier.
validate_hash_echo(c, hash) ==
  IF hash.id \in SPECIFIED_HASH THEN
    LET security == Max(c.security, collision_resistance(hash)) IN
    IF security <= 111 THEN
      IF c.year > CUTOFF_YEAR THEN Err(SHA256) ELSE Err(SHA224)
    ELSE IF security = 112 THEN
      IF c.year > CUTOFF_YEAR THEN Err(SHA256) ELSE Ok(hash)
    ELSE Ok(hash)
  ELSE Err(SHA256)

\* validate_hash with the results of the 113..=128 and 129..=192 arms
\* exchanged.
validate_hash_arms_exchanged(c, hash) ==
  IF hash.id \in SPECIFIED_HASH THEN
    LET security == Max(c.security, collision_resistance(hash)) IN
    IF security <= 111 THEN
      IF c.year > CUTOFF_YEAR THEN Err(SHA256) ELSE Err(SHA224)
    ELSE IF security = 112 THEN
      IF c.year > CUTOFF_YEAR THEN Err(SHA256) ELSE Ok(SHA224)
    ELSE IF security \in 113..128 THEN Ok(SHA384)
    ELSE IF security \in 129..192 THEN Ok(SHA256)
    ELSE Ok(SHA512)
  ELSE Err(SHA256)

\* validate_hash whose lowest arm also takes 112.
validate_hash_lowest_arm_to_112(c, hash) ==
  IF hash.id \in SPECIFIED_HASH THEN
    LET security == Max(c.security, collision_resistance(hash)) IN
    IF security <= 112 THEN
      IF c.year > CUTOFF_YEAR THEN Err(SHA256) ELSE Err(SHA224)
    ELSE IF security \in 113..128 THEN Ok(SHA256)
    ELSE IF security \in 129..192 THEN Ok(SHA384)
    ELSE Ok(SHA512)
  ELSE Err(SHA256)

validate_hash(c, hash) ==
  IF hash.id \in SPECIFIED_HASH THEN
    LET security == Max(c.security, collision_resistance(hash)) IN
    IF security <= 111 THEN
      IF c.year > CUTOFF_YEAR THEN Err(SHA256) ELSE Err(SHA224)
    ELSE IF security = 112 THEN
      IF c.year > CUTOFF_YEAR THEN Err(SHA256) ELSE Ok(SHA224)
    ELSE IF security \in 113..128 THEN Ok(SHA256)
    ELSE IF security \in 129..192 THEN Ok(SHA384)
    ELSE Ok(SHA512)
  ELSE Err(SHA256)

\* validate_hash_based reading the collision resistance, as validate_hash
\* does.
validate_hash_based_collision(c, hash) ==
  IF hash.id \in SPECIFIED_HASH THEN
    LET security == Max(c.security, collision_resistance(hash)) IN
    IF security <= 111 THEN Err(SHA224)
    ELSE IF security \in 112..127 THEN
      IF c.year > CUTOFF_YEAR THEN Err(SHA224) ELSE Ok(SHA224)
    ELSE IF security \in 128..224 THEN Ok(SHA224)
    ELSE IF security \in 225..256 THEN Ok(SHA256)
    ELSE IF security \in 257..394 THEN Ok(SHA384)
    ELSE Ok(SHA512)
  ELSE Err(SHA224)

\* validate_hash_based with the unspecified branch of validate_hash.
validate_hash_based_unspecified_sha256(c, hash) ==
  IF hash.id \in SPECIFIED_HASH THEN
    LET security == Max(c.security, pre_image_resistance(hash)) IN
    IF security <= 111 THEN Err(SHA224)
    ELSE IF security \in 112..127 THEN
      IF c.year > CUTOFF_YEAR THEN Err(SHA224) ELSE Ok(SHA224)
    ELSE IF security \in 128..224 THEN Ok(SHA224)
    ELSE IF security \in 225..256 THEN Ok(SHA256)
    ELSE IF security \in 257..394 THEN Ok(SHA384)
    ELSE Ok(SHA512)
  ELSE Err(SHA256)

validate_hash_based(c, hash) ==
  IF hash.id \in SPECIFIED_HASH THEN
    LET security == Max(c.security, pre_image_resistance(hash)) IN
    IF security <= 111 THEN Err(SHA224)
    ELSE IF security \in 112..127 THEN
      IF c.year > CUTOFF_YEAR THEN Err(SHA224) ELSE Ok(SHA224)
    ELSE IF security \in 128..224 THEN Ok(SHA224)
    ELSE IF security \in 225..256 THEN Ok(SHA256)
    ELSE IF security \in 257..394 THEN Ok(SHA384)
    ELSE Ok(SHA512)
  ELSE Err(SHA224)

\* validate_symmetric without the earlier cutoff of three-key Triple DES.
validate_symmetric_one_cutoff(c, k) ==
  IF k.id \in SPECIFIED_SYMMETRIC THEN
    IF k.security <= 111 THEN Err(AES128)
    ELSE IF k.security = 112 THEN
      IF c.year > CUTOFF_YEAR THEN Err(AES128) ELSE Ok(AES128)
    ELSE IF k.security \in 113..128 THEN Ok(AES128)
    ELSE IF k.security \in 129..192 THEN Ok(AES192)
    ELSE Ok(AES256)
  ELSE Err(AES128)

\* validate_symmetric with the cutoff year itself counted as past the
\* cutoff.
validate_symmetric_cutoff_inclusive(c, k) ==
  IF k.id \in SPECIFIED_SYMMETRIC THEN
    IF k.security <= 111 THEN Err(AES128)
    ELSE IF k.security = 112 THEN
      LET cutoff == IF k.id = TDEA3.id THEN CUTOFF_YEAR_3TDEA ELSE CUTOFF_YEAR IN
      IF c.year >= cutoff THEN Err(AES128) ELSE Ok(AES128)
    ELSE IF k.security \in 113..128 THEN Ok(AES128)
    ELSE IF k.security \in 129..192 THEN Ok(AES192)
    ELSE Ok(AES256)
  ELSE Err(AES128)

validate_symmetric(c, k) ==
  IF k.id \in SPECIFIED_SYMMETRIC THEN
    IF k.security <= 111 THEN Err(AES128)
    ELSE IF k.security = 112 THEN
      LET cutoff == IF k.id = TDEA3.id THEN CUTOFF_YEAR_3TDEA ELSE CUTOFF_YEAR IN
      IF c.year > cutoff THEN Err(AES128) ELSE Ok(AES128)
    ELSE IF k.security \in 113..128 THEN Ok(AES128)
    ELSE IF k.security \in 129..192 THEN Ok(AES192)
    ELSE Ok(AES256)
  ELSE Err(AES128)

\* The match arms of the four functions, taken apart: the patterns a value
\* matches, numbered in the order of the source, and the body of each arm.
\* Arm 0 is the branch taken when no pattern is tried or none matches: the
\* wildcard of validate_ffc, the else branch of the other three.

\* The patterns of validate_ffc with the third one starting at (2048, 224).
validate_ffc_arms_overlapping(k) ==
  {i \in 1..5 :
     \/ i = 1 /\ k.l <= 2047 /\ k.n <= 223
     \/ i = 2 /\ k.l = 2048 /\ k.n = 224
     \/ i = 3 /\ k.l \in 2048..3072 /\ k.n \in 224..256
     \/ i = 4 /\ k.l \in 3073..7680 /\ k.n \in 257..384
     \/ i = 5 /\ k.l >= 7681 /\ k.n >= 385}

validate_ffc_arms(k) ==
  {i \in 1..5 :
     \/ i = 1 /\ k.l <= 2047 /\ k.n <= 223
     \/ i = 2 /\ k.l = 2048 /\ k.n = 224
     \/ i = 3 /\ k.l \in 2049..3072 /\ k.n \in 225..256
     \/ i = 4 /\ k.l \in 3073..7680 /\ k.n \in 257..384
     \/ i = 5 /\ k.l >= 7681 /\ k.n >= 385}

validate_ffc_arm(i, c) ==
  IF i = 1 THEN Err(FFC_2048_224)
  ELSE IF i = 2 THEN
    IF c.year > CUTOFF_YEAR THEN Err(FFC_3072_256) ELSE Ok(FFC_2048_224)
  ELSE IF i = 3 THEN Ok(FFC_3072_256)
  ELSE IF i = 4 THEN Ok(FFC_7680_384)
  ELSE IF i = 5 THEN Ok(FFC_15360_512)
  ELSE Err(FFC_2048_224)

validate_hash_arms(security) ==
  {i \in 1..5 :
     \/ i = 1 /\ security <= 111
     \/ i = 2 /\ security = 112
     \/ i = 3 /\ security \in 113..128
     \/ i = 4 /\ security \in 129..192
     \/ i = 5 /\ security >= 193}

validate_hash_arm(i, c) ==
  IF i = 1 THEN
    IF c.year > CUTOFF_YEAR THEN Err(SHA256) ELSE Err(SHA224)
  ELSE IF i = 2 THEN
    IF c.year > CUTOFF_YEAR THEN Err(SHA256) ELSE Ok(SHA224)
  ELSE IF i = 3 THEN Ok(SHA256)
  ELSE IF i = 4 THEN Ok(SHA384)
  ELSE IF i = 5 THEN Ok(SHA512)
  ELSE Err(SHA256)

validate_hash_based_arms(security) ==
  {i \in 1..6 :
     \/ i = 1 /\ security <= 111
     \/ i = 2 /\ security \in 112..127
     \/ i = 3 /\ security \in 128..224
     \/ i = 4 /\ security \in 225..256
     \/ i = 5 /\ security \in 257..394
     \/ i = 6 /\ security >= 395}

validate_hash_based_arm(i, c) ==
  IF i = 1 THEN Err(SHA224)
  ELSE IF i = 2 THEN
    IF c.year > CUTOFF_YEAR THEN Err(SHA224) ELSE Ok(SHA224)
  ELSE IF i = 3 THEN Ok(SHA224)
  ELSE IF i = 4 THEN Ok(SHA256)
  ELSE IF i = 5 THEN Ok(SHA384)
  ELSE IF i = 6 THEN Ok(SHA512)
  ELSE Err(SHA224)

validate_symmetric_arms(security) ==
  {i \in 1..5 :
     \/ i = 1 /\ security <= 111
     \/ i = 2 /\ security = 112
     \/ i = 3 /\ security \in 113..128
     \/ i = 4 /\ security \in 129..192
     \/ i = 5 /\ security >= 193}

validate_symmetric_arm(i, c, k) ==
  IF i = 1 THEN Err(AES128)
  ELSE IF i = 2 THEN
    LET cutoff == IF k.id = TDEA3.id THEN CUTOFF_YEAR_3TDEA ELSE CUTOFF_YEAR IN
    IF c.year > cutoff THEN Err(AES128) ELSE Ok(AES128)
  ELSE IF i = 3 THEN Ok(AES128)
  ELSE IF i = 4 THEN Ok(AES192)
  ELSE IF i = 5 THEN Ok(AES256)
  ELSE Err(AES128)

\* A call through the function pointer f: fn(&Context, &T) -> Result<T, T>,
\* a pointer to one of the four functions above, held by its name.
Validate(f, c, k) ==
  IF f = "validate_ffc" THEN validate_ffc(c, k)
  ELSE IF f = "validate_hash" THEN validate_hash(c, k)
  ELSE IF f = "validate_hash_based" THEN validate_hash_based(c, k)
  ELSE validate_symmetric(c, k)

\* Result::map(f).map_err(f): f applied to the value, the verdict kept.
map_map_err(r, variant) ==
  IF variant = "Ecc" THEN [ok |-> r.ok, val |-> Asymmetric_Ecc(r.val)]
  ELSE IF variant = "Ifc" THEN [ok |-> r.ok, val |-> Asymmetric_Ifc(r.val)]
  ELSE [ok |-> r.ok, val |-> Asymmetric_Ffc(r.val)]

\* validate_asymmetric whose Ifc arm maps the error into a success.
validate_asymmetric_ifc_always_ok(S, c, k) ==
  IF k.variant = "Ecc" THEN map_map_err(S.validate_ecc[<<c, k.payload>>], "Ecc")
  ELSE IF k.variant = "Ifc" THEN
    [ok |-> TRUE, val |-> Asymmetric_Ifc(S.validate_ifc[<<c, k.payload>>].val)]
  ELSE map_map_err(S.validate_ffc[<<c, k.payload>>], "Ffc")

\* The default method of the trait Standard; S holds the required methods
\* of the implementor (Self), each a function of (Context, primitive).
validate_asymmetric(S, c, k) ==
  IF k.variant = "Ecc" THEN map_map_err(S.validate_ecc[<<c, k.payload>>], "Ecc")
  ELSE IF k.variant = "Ifc" THEN map_map_err(S.validate_ifc[<<c, k.payload>>], "Ifc")
  ELSE map_map_err(S.validate_ffc[<<c, k.payload>>], "Ffc")

\* c_call reporting a null argument as a non-compliant primitive.
c_call_null_as_zero(f, c, primitive, alt, m) ==
  IF c = NULL \/ primitive = NULL THEN
    [ret |-> 0, mem |-> m, result |-> NONE]
  ELSE
    LET r == Validate(f, Deref(c), Deref(primitive)) IN
    [ret |-> IF r.ok THEN 1 ELSE 0,
     mem |-> IF alt # NULL THEN r.val ELSE m,
     result |-> r]

\* c_call writing the recommendation only for a non-compliant primitive.
c_call_write_on_err(f, c, primitive, alt, m) ==
  IF c = NULL \/ primitive = NULL THEN
    [ret |-> -1, mem |-> m, result |-> NONE]
  ELSE
    LET r == Validate(f, Deref(c), Deref(primitive)) IN
    [ret |-> IF r.ok THEN 1 ELSE 0,
     mem |-> IF alt # NULL /\ ~r.ok THEN r.val ELSE m,
     result |-> r]

\* What a call c_call(f, ctx, primitive, alternative) does, m being the
\* content of the memory behind alternative before the call: the value
\* returned, the memory afterwards and what f returned (NONE when f was
\* not called).
c_call(f, c, primitive, alt, m) ==
  IF c = NULL \/ primitive = NULL THEN
    [ret |-> -1, mem |-> m, result |-> NONE]
  ELSE
    LET r == Validate(f, Deref(c), Deref(primitive)) IN
    [ret |-> IF r.ok THEN 1 ELSE 0,
     mem |-> IF alt # NULL THEN r.val ELSE m,
     result |-> r]

ws_nist_validate_ffc(c, k, alt, m) == c_call("validate_ffc", c, k, alt, m)
ws_nist_validate_hash(c, hash, alt, m) == c_call("validate_hash", c, hash, alt, m)
ws_nist_validate_hash_based(c, hash, alt, m) == c_call("validate_hash_based", c, hash, alt, m)
ws_nist_validate_symmetric(c, k, alt, m) == c_call("validate_symmetric", c, k, alt, m)

----------------------------------------------------------------------------
(* crates/cmd/src/primitive/hash.rs                                        *)

\* The bidirectional map of hash functions and their names, as pairs.
HASH_REPR == {<<SHA256, "sha256">>}

\* impl From<&str> for HashFunc
HashFunc_from_str(n) ==
  LET found == {p \in HASH_REPR : p[2] = n}
      func == IF found = {} THEN HASH_NOT_SUPPORTED ELSE (CHOOSE p \in found : TRUE)[1]
  IN [func |-> func, name |-> n]

----------------------------------------------------------------------------
(* The inputs.                                                             *)

SecurityValues == {0, U16Max} \cup Around({112, 113, 128, 129, 193, 225, 257, 395})
Years == {0, U16Max} \cup Around({CUTOFF_YEAR_3TDEA + 1, CUTOFF_YEAR + 1})
Contexts == {Context(s, y) : s \in SecurityValues, y \in Years}

LValues == {1024, 4096, 15360, U16Max} \cup Around({2048, 2049, 3073, 7681})
NValues == {160, 512, U16Max} \cup Around({224, 225, 257, 385})
FfcInputs == {Ffc(l, n) : l \in LValues, n \in NValues}

HashInputs ==
  {BLAKE2b_256, BLAKE2b_384, BLAKE2b_512, BLAKE2s_256, MD4, MD5, RIPEMD160,
   SHA1, SHA224, SHA256, SHA384, SHA3_224, SHA3_256, SHA3_384, SHA3_512,
   SHA512, SHA512_224, SHA512_256, SHAKE128, SHAKE256, HASH_NOT_SUPPORTED}

SymmetricSecurityValues == {0, U16Max} \cup Around({112, 113, 129, 193})
SymmetricIds == {AES128.id, AES192.id, AES256.id, TDEA2.id, TDEA3.id, CAMELLIA128.id, DES.id}
SymmetricInputs ==
  {AES128, AES192, AES256, TDEA2, TDEA3, CAMELLIA128, DES}
    \cup {Symmetric(i, s) : i \in SymmetricIds, s \in SymmetricSecurityValues}

\* Context::default() is defined outside nist.rs.  The tests of nist.rs call
\* every function with it and pin what it may be: sha1_collision_resistance
\* (Err(SHA224)) needs a floor of at most 111 and a year of at most
\* CUTOFF_YEAR, three_key_tdea (Ok(AES128)) a year of at most
\* CUTOFF_YEAR_3TDEA.  These are the Contexts of the model that the tests
\* allow as the default.
DefaultContexts ==
  {c \in Contexts : c.security <= 111 /\ c.year <= CUTOFF_YEAR_3TDEA}

\* The inputs of validate_asymmetric: two curves, two moduli, the five
\* (l, n) pairs of the catalog, and a Context on each side of the cutover.
EccInputs == {P224, P256}
IfcInputs == {IFC_1024, IFC_2048}
FfcCatalog == {FFC_1024_160, FFC_2048_224, FFC_3072_256, FFC_7680_384, FFC_15360_512}
AsymmetricInputs ==
  {Asymmetric_Ecc(x) : x \in EccInputs} \cup {Asymmetric_Ifc(x) : x \in IfcInputs}
    \cup {Asymmetric_Ffc(x) : x \in FfcCatalog}
AsymmetricContexts == {Context(128, CUTOFF_YEAR), Context(128, CUTOFF_YEAR + 1)}

\* The implementors of Standard: validate_ecc and validate_ifc are required
\* methods, any function of the primitive to a verdict about a canonical
\* instance; validate_ffc is the one of nist.rs or a constant one.
EccMethods ==
  {[x \in AsymmetricContexts \X EccInputs |-> t[x[2]]] :
     t \in [EccInputs -> {Ok(P224), Ok(P256), Err(P256)}]}
IfcMethods ==
  {[x \in AsymmetricContexts \X IfcInputs |-> t[x[2]]] :
     t \in [IfcInputs -> {Ok(IFC_1024), Ok(IFC_2048), Err(IFC_2048)}]}
FfcMethods ==
  {[x \in AsymmetricContexts \X FfcCatalog |-> validate_ffc(x[1], x[2])]}
    \cup {[x \in AsymmetricContexts \X FfcCatalog |-> r] :
            r \in {Ok(FFC_2048_224), Err(FFC_15360_512)}}
Standards ==
  [validate_ecc : EccMethods, validate_ifc : IfcMethods, validate_ffc : FfcMethods]

Names == {"sha256", "SHA256", "sha1", "md5", ""}

Pointers(S) == {NULL} \cup {Ref(v) : v \in S}

RustFunctions == {"validate_ffc", "validate_hash", "validate_hash_based", "validate_symmetric"}
CWrappers == {"ws_nist_validate_ffc", "ws_nist_validate_hash",
              "ws_nist_validate_hash_based", "ws_nist_validate_symmetric"}

----------------------------------------------------------------------------
(* The state machine.                                                      *)

Init ==
  /\ pc = "idle"
  /\ fn = ""
  /\ ctx = NONE
  /\ key = NONE
  /\ alternative = NULL
  /\ mem = UNINIT
  /\ result = NONE
  /\ ret = NONE
  /\ name = NONE
  /\ hashFunc = NONE
  /\ standard = NONE

\* A call of the Rust function f on (c, k).
RustCall(f, c, k, r) ==
  /\ pc' = "done"
  /\ fn' = f
  /\ ctx' = c
  /\ key' = k
  /\ result' = r
  /\ UNCHANGED <<alternative, mem, ret, name, hashFunc, standard>>

ValidateFfc ==
  /\ pc = "idle"
  /\ \E c \in Contexts, k \in FfcInputs :
      RustCall("validate_ffc", c, k, validate_ffc(c, k))

ValidateHash ==
  /\ pc = "idle"
  /\ \E c \in Contexts, k \in HashInputs :
      RustCall("validate_hash", c, k, validate_hash(c, k))

ValidateHashBased ==
  /\ pc = "idle"
  /\ \E c \in Contexts, k \in HashInputs :
      RustCall("validate_hash_based", c, k, validate_hash_based(c, k))

ValidateSymmetric ==
  /\ pc = "idle"
  /\ \E c \in Contexts, k \in SymmetricInputs :
      RustCall("validate_symmetric", c, k, validate_symmetric(c, k))

\* A call of the C wrapper f with the pointers (c, k, alt), out being what
\* the wrapper does.
CCall(f, c, k, alt, out) ==
  /\ pc' = "done"
  /\ fn' = f
  /\ ctx' = c
  /\ key' = k
  /\ alternative' = alt
  /\ mem' = out.mem
  /\ ret' = out.ret
  /\ result' = out.result
  /\ UNCHANGED <<name, hashFunc, standard>>

WsNistValidateFfc ==
  /\ pc = "idle"
  /\ \E c \in Pointers(Contexts), k \in Pointers(FfcInputs), alt \in {NULL, ALTERNATIVE} :
      CCall("ws_nist_validate_ffc", c, k, alt, ws_nist_validate_ffc(c, k, alt, mem))

WsNistValidateHash ==
  /\ pc = "idle"
  /\ \E c \in Pointers(Contexts), k \in Pointers(HashInputs), alt \in {NULL, ALTERNATIVE} :
      CCall("ws_nist_validate_hash", c, k, alt, ws_nist_validate_hash(c, k, alt, mem))

WsNistValidateHashBased ==
  /\ pc = "idle"
  /\ \E c \in Pointers(Contexts), k \in Pointers(HashInputs), alt \in {NULL, ALTERNATIVE} :
      CCall("ws_nist_validate_hash_based", c, k, alt,
          ws_nist_validate_hash_based(c, k, alt, mem))

WsNistValidateSymmetric ==
  /\ pc = "idle"
  /\ \E c \in Pointers(Contexts), k \in Pointers(SymmetricInputs), alt \in {NULL, ALTERNATIVE} :
      CCall("ws_nist_validate_symmetric", c, k, alt,
          ws_nist_validate_symmetric(c, k, alt, mem))

HashFuncFromStr ==
  /\ pc = "idle"
  /\ \E n \in Names :
    /\ pc' = "done"
    /\ fn' = "HashFunc::from"
    /\ name' = n
    /\ hashFunc' = HashFunc_from_str(n)
    /\ UNCHANGED <<ctx, key, alternative, mem, result, ret, standard>>

ValidateAsymmetric ==
  /\ pc = "idle"
  /\ \E S \in Standards, c \in AsymmetricContexts, k \in AsymmetricInputs :
      /\ pc' = "done"
      /\ fn' = "validate_asymmetric"
      /\ standard' = S
      /\ ctx' = c
      /\ key' = k
      /\ result' = validate_asymmetric(S, c, k)
      /\ UNCHANGED <<alternative, mem, ret, name, hashFunc>>

Next ==
  \/ ValidateFfc
  \/ ValidateHash
  \/ ValidateHashBased
  \/ ValidateSymmetric
  \/ WsNistValidateFfc
  \/ WsNistValidateHash
  \/ WsNistValidateHashBased
  \/ WsNistValidateSymmetric
  \/ HashFuncFromStr
  \/ ValidateAsymmetric

Spec == Init /\ [][Next]_vars

----------------------------------------------------------------------------
(* Helpers of the claims.                                                  *)

RustDone(f) == pc = "done" /\ fn = f

\* SP 800-57 Part 1, table 2: the security strength of the canonical FFC
\* instances, and the canonical instance of the tier that holds a strength.
FfcStrength(k) ==
  IF k = FFC_2048_224 THEN 112
  ELSE IF k = FFC_3072_256 THEN 128
  ELSE IF k = FFC_7680_384 THEN 192
  ELSE 256

FfcTier(e) ==
  IF e <= 112 THEN FFC_2048_224
  ELSE IF e <= 128 THEN FFC_3072_256
  ELSE IF e <= 192 THEN FFC_7680_384
  ELSE FFC_15360_512

SymmetricTier(e) ==
  IF e <= 128 THEN AES128
  ELSE IF e <= 192 THEN AES192
  ELSE AES256

\* The specified primitives of the lowest tier under the context c.
LowestTierHashes(c) ==
  {h \in HashInputs : h.id \in SPECIFIED_HASH /\ Max(c.security, collision_resistance(h)) <= 111}
LowestTierHashesBased(c) ==
  {h \in HashInputs : h.id \in SPECIFIED_HASH /\ Max(c.security, pre_image_resistance(h)) <= 111}
LowestTierSymmetric ==
  {k \in SymmetricInputs : k.id \in SPECIFIED_SYMMETRIC /\ k.security <= 111}

----------------------------------------------------------------------------
(* C1: whatever primitive an operation recommends is itself compliant:     *)
(* the same operation under the same Context, applied to the               *)
(* recommendation it returned, returns Compliant.  The statement fails     *)
(* for validate_ffc, which recommends FFC_2048_224 to a weak key after     *)
(* 2031, when FFC_2048_224 is itself no longer compliant.                  *)
C1_RecommendationIsCompliant ==
  (pc = "done" /\ fn \in RustFunctions) => Validate(fn, ctx, result.val).ok

(* C2: in validate_symmetric and validate_ffc the caller's floor takes     *)
(* part: when the key is compliant by its own strength and                 *)
(* Context.security is higher than that strength, the Compliant result     *)
(* holds the canonical primitive of the tier of max(Context.security, key  *)
(* strength).  The statement fails: neither function reads                 *)
(* Context.security.                                                       *)
C2_FloorTakesPart ==
  /\ RustDone("validate_symmetric") =>
       LET own == validate_symmetric(Context(0, ctx.year), key) IN
       (own.ok /\ ctx.security > key.security) =>
         result = Ok(SymmetricTier(Max(ctx.security, key.security)))
  /\ RustDone("validate_ffc") =>
       LET own == validate_ffc(Context(0, ctx.year), key) IN
       (own.ok /\ ctx.security > FfcStrength(own.val)) =>
         result = Ok(FfcTier(Max(ctx.security, FfcStrength(own.val))))

(* C3, as amended: for validate_hash_based and validate_symmetric the      *)
(* recommendation for an unspecified primitive is the one the same         *)
(* operation gives, under the same Context, to every specified primitive   *)
(* of the lowest (<= 111 bit) tier: SHA224 and AES128.  For validate_hash  *)
(* the recommendation for an unspecified hash is SHA256 under every        *)
(* Context, which is the lowest tier's recommendation only when            *)
(* year > 2031; up to 2031 the lowest tier is recommended SHA224.          *)
C3_UnspecifiedRecommendation ==
  /\ (RustDone("validate_hash_based") /\ key.id \notin SPECIFIED_HASH) =>
       /\ result.val = SHA224
       /\ \A h \in LowestTierHashesBased(ctx) : validate_hash_based(ctx, h).val = result.val
  /\ (RustDone("validate_symmetric") /\ key.id \notin SPECIFIED_SYMMETRIC) =>
       /\ result.val = AES128
       /\ \A k \in LowestTierSymmetric : validate_symmetric(ctx, k).val = result.val
  /\ (RustDone("validate_hash") /\ key.id \notin SPECIFIED_HASH) =>
       /\ result.val = SHA256
       /\ \A h \in LowestTierHashes(ctx) :
            validate_hash(ctx, h).val = IF ctx.year > 2031 THEN result.val ELSE SHA224

\* An unspecified hash met validate_hash under a Context that leaves SHA1 in
\* the lowest tier before the cutoff: the case in which the two
\* recommendations differ.
C3_Witness ==
  /\ RustDone("validate_hash")
  /\ key = MD5
  /\ ctx.year <= 2031
  /\ SHA1 \in LowestTierHashes(ctx)
  /\ result = Err(SHA256)

\* C3 as stated: the recommendation for an unspecified primitive is the
\* lowest tier's, in each of the three operations.
C3_Original ==
  /\ (RustDone("validate_hash") /\ key.id \notin SPECIFIED_HASH) =>
       \A h \in LowestTierHashes(ctx) : validate_hash(ctx, h).val = result.val
  /\ (RustDone("validate_hash_based") /\ key.id \notin SPECIFIED_HASH) =>
       \A h \in LowestTierHashesBased(ctx) : validate_hash_based(ctx, h).val = result.val
  /\ (RustDone("validate_symmetric") /\ key.id \notin SPECIFIED_SYMMETRIC) =>
       \A k \in LowestTierSymmetric : validate_symmetric(ctx, k).val = result.val

(* C4: a primitive outside the specified set is NonCompliant under every   *)
(* Context, whatever the floor, the year and its own strength:             *)
(* validate_hash returns Err(SHA256), validate_hash_based Err(SHA224) and  *)
(* validate_symmetric Err(AES128).  HashFunc::from(&str) never fails,      *)
(* keeps the given name and maps every name other than "sha256" to         *)
(* HASH_NOT_SUPPORTED, which is such a primitive.                          *)
C4_UnspecifiedNonCompliant ==
  /\ (RustDone("validate_hash") /\ key.id \notin SPECIFIED_HASH) => result = Err(SHA256)
  /\ (RustDone("validate_hash_based") /\ key.id \notin SPECIFIED_HASH) => result = Err(SHA224)
  /\ (RustDone("validate_symmetric") /\ key.id \notin SPECIFIED_SYMMETRIC) =>
       result = Err(AES128)
  /\ RustDone("HashFunc::from") =>
       /\ hashFunc.name = name
       /\ name # "sha256" =>
            /\ hashFunc.func = HASH_NOT_SUPPORTED
            /\ \A c \in Contexts :
                 /\ validate_hash(c, hashFunc.func) = Err(SHA256)
                 /\ validate_hash_based(c, hashFunc.func) = Err(SHA224)

\* validate_hash met HASH_NOT_SUPPORTED under a floor of the top tier.
C4_Witness ==
  /\ RustDone("validate_hash")
  /\ key = HASH_NOT_SUPPORTED
  /\ ctx.security >= 395
  /\ ctx.year <= 2031
  /\ result = Err(SHA256)

OwnStrength(f, k) ==
  IF f = "validate_hash" THEN collision_resistance(k)
  ELSE IF f = "validate_hash_based" THEN pre_image_resistance(k)
  ELSE IF f = "validate_symmetric" THEN k.security
  ELSE IF k.l >= 7681 /\ k.n >= 385 THEN 256
  ELSE IF k.l >= 3073 /\ k.n >= 257 THEN 192
  ELSE IF k.l >= 2049 /\ k.n >= 225 THEN 128
  ELSE IF k.l >= 2048 /\ k.n >= 224 THEN 112
  ELSE 0

\* The tier of a recommended primitive: its security strength.
TierOf(f, r) == IF f = "validate_ffc" THEN FfcStrength(r) ELSE OwnStrength(f, r)

(* C6: monotonicity in the floor.  For the primitive and year of the call  *)
(* and every floor s1 not above the floor s2 of the call: (i) if the       *)
(* primitive's own strength is at least s2 and the verdict under s1 is     *)
(* Compliant, so is the verdict under s2; (ii) the primitive recommended   *)
(* under s2 is of no lower tier than the one recommended under s1.         *)
C6_FloorMonotone ==
  (pc = "done" /\ fn \in RustFunctions) =>
    \A s1 \in {s \in SecurityValues : s <= ctx.security} :
      LET r1 == Validate(fn, Context(s1, ctx.year), key) IN
      /\ (OwnStrength(fn, key) >= ctx.security /\ r1.ok) => result.ok
      /\ TierOf(fn, result.val) >= TierOf(fn, r1.val)

\* A floor that lifts SHA224 out of its own tier into the next one.
C6_Witness ==
  /\ RustDone("validate_hash")
  /\ key = SHA224
  /\ ctx.security = 113
  /\ result = Ok(SHA256)
  /\ validate_hash(Context(0, ctx.year), key).val = SHA224

\* The Rust function that the C wrapper named w wraps.
Wrapped(w) ==
  IF w = "ws_nist_validate_ffc" THEN "validate_ffc"
  ELSE IF w = "ws_nist_validate_hash" THEN "validate_hash"
  ELSE IF w = "ws_nist_validate_hash_based" THEN "validate_hash_based"
  ELSE "validate_symmetric"

(* C7: a C wrapper called with a null Context pointer or a null primitive  *)
(* pointer returns -1 without calling the assessment function, and leaves  *)
(* the memory behind the output pointer as it was, also when that pointer  *)
(* is not null.                                                            *)
C7_NullArgument ==
  [][(pc' = "done" /\ fn' \in CWrappers /\ (ctx' = NULL \/ key' = NULL)) =>
       (ret' = -1 /\ mem' = mem /\ result' = NONE)]_vars

\* A wrapper met a null Context with a primitive and an output pointer that
\* are not null.
C7_Witness ==
  /\ pc = "done"
  /\ fn = "ws_nist_validate_hash"
  /\ ctx = NULL
  /\ key = Ref(SHA1)
  /\ alternative = ALTERNATIVE
  /\ ret = -1
  /\ mem = UNINIT

(* C8: a C wrapper called with a Context and a primitive pointer that are  *)
(* not null returns 1 exactly when the Rust function it wraps returns Ok   *)
(* and 0 exactly when it returns Err, never -1; an output pointer that is  *)
(* not null is written with the recommended primitive in both outcomes,    *)
(* and with a null output pointer nothing is written.                      *)
C8_PolicyVerdict ==
  (pc = "done" /\ fn \in CWrappers /\ ctx # NULL /\ key # NULL) =>
    LET r == Validate(Wrapped(fn), Deref(ctx), Deref(key)) IN
    /\ ret \in {0, 1}
    /\ ret = 1 <=> r.ok
    /\ ret = 0 <=> ~r.ok
    /\ alternative # NULL => mem = r.val
    /\ alternative = NULL => mem = UNINIT

\* A compliant key whose recommendation was written through the output
\* pointer.
C8_Witness ==
  /\ pc = "done"
  /\ fn = "ws_nist_validate_symmetric"
  /\ key = Ref(AES256)
  /\ ctx # NULL
  /\ alternative = ALTERNATIVE
  /\ ret = 1
  /\ mem = AES256

C10_HashTable ==
  (RustDone("validate_hash") /\ key.id \in SPECIFIED_HASH) =>
    LET e == Max(ctx.security, collision_resistance(key)) IN
    /\ e <= 111 => result = IF ctx.year <= 2031 THEN Err(SHA224) ELSE Err(SHA256)
    /\ (e = 112 /\ ctx.year <= 2031) => result = Ok(SHA224)
    /\ e \in 113..128 => result = Ok(SHA256)
    /\ e \in 129..192 => result = Ok(SHA384)
    /\ e >= 193 => result = Ok(SHA512)
    /\ (key = SHA3_256 /\ ctx.security <= 128) => result = Ok(SHA256)

\* SHA3_256 under a floor below its own strength.
C10_Witness ==
  /\ RustDone("validate_hash")
  /\ key = SHA3_256
  /\ ctx.security = 112
  /\ result = Ok(SHA256)

C12_HashBasedTable ==
  (RustDone("validate_hash_based") /\ key.id \in SPECIFIED_HASH) =>
    LET e == Max(ctx.security, pre_image_resistance(key)) IN
    /\ e <= 111 => result = Err(SHA224)
    /\ e \in 112..127 => result = IF ctx.year <= 2031 THEN Ok(SHA224) ELSE Err(SHA224)
    /\ e \in 128..224 => result = Ok(SHA224)
    /\ e \in 225..256 => result = Ok(SHA256)
    /\ e \in 257..394 => result = Ok(SHA384)
    /\ e >= 395 => result = Ok(SHA512)
    /\ \A cr \in SecurityValues :
         validate_hash_based(ctx, Hash(key.id, cr, pre_image_resistance(key))) = result

\* SHA224 with no floor: its collision resistance (112) lies in the tier
\* with the cutover, its pre-image resistance (224) does not, and the year is
\* past the cutover.
C12_Witness ==
  /\ RustDone("validate_hash_based")
  /\ key = SHA224
  /\ ctx.security = 0
  /\ ctx.year = 2032
  /\ result = Ok(SHA224)

\* The tier of validate_hash a strength of s bits falls in, no later than
\* the cutover of the 112 bit tier.
HashTierResult(s) ==
  IF s <= 111 THEN Err(SHA224)
  ELSE IF s = 112 THEN Ok(SHA224)
  ELSE IF s <= 128 THEN Ok(SHA256)
  ELSE IF s <= 192 THEN Ok(SHA384)
  ELSE Ok(SHA512)

\* What the scenarios state of validate_hash under a Context c.
OwnTierScenarios(c) ==
  /\ \A h \in {x \in HashInputs : x.id \in SPECIFIED_HASH} :
       validate_hash(c, h) = HashTierResult(collision_resistance(h))
  /\ validate_hash(c, SHA1) = Err(SHA224)
  /\ \A h \in {SHA224, SHA3_224, SHA512_224} : validate_hash(c, h) = Ok(SHA224)
  /\ validate_hash(c, SHA3_256) = Ok(SHA256)

MatchedArms(f, c, k) ==
  IF f = "validate_ffc" THEN validate_ffc_arms(k)
  ELSE IF f = "validate_hash" THEN
    IF k.id \in SPECIFIED_HASH
    THEN validate_hash_arms(Max(c.security, collision_resistance(k))) ELSE {}
  ELSE IF f = "validate_hash_based" THEN
    IF k.id \in SPECIFIED_HASH
    THEN validate_hash_based_arms(Max(c.security, pre_image_resistance(k))) ELSE {}
  ELSE
    IF k.id \in SPECIFIED_SYMMETRIC THEN validate_symmetric_arms(k.security) ELSE {}

\* TRUE when the match of the call is tried: always for validate_ffc, whose
\* wildcard takes what no pattern matches, and for a specified identifier in
\* the other three, whose match has no wildcard.
MatchTried(f, k) ==
  \/ f = "validate_ffc"
  \/ f \in {"validate_hash", "validate_hash_based"} /\ k.id \in SPECIFIED_HASH
  \/ f = "validate_symmetric" /\ k.id \in SPECIFIED_SYMMETRIC

ArmBody(f, i, c, k) ==
  IF f = "validate_ffc" THEN validate_ffc_arm(i, c)
  ELSE IF f = "validate_hash" THEN validate_hash_arm(i, c)
  ELSE IF f = "validate_hash_based" THEN validate_hash_based_arm(i, c)
  ELSE validate_symmetric_arm(i, c, k)

\* The canonical instances the arms of a function return.
Canonical(f) ==
  IF f = "validate_ffc" THEN {FFC_2048_224, FFC_3072_256, FFC_7680_384, FFC_15360_512}
  ELSE IF f \in {"validate_hash", "validate_hash_based"} THEN {SHA224, SHA256, SHA384, SHA512}
  ELSE {AES128, AES192, AES256}

(* C14: totality and exclusive partition.  For each of the four operations, *)
(* every Context and every input, no two patterns of the match take the    *)
(* input; where the match has no wildcard exactly one pattern takes it;    *)
(* where no pattern takes it the wildcard of validate_ffc or the else      *)
(* branch of an unspecified identifier does; and the operation returns the *)
(* body of that one arm, a Compliant or a NonCompliant carrying one        *)
(* canonical instance.                                                     *)
C14_TotalPartition ==
  \A f \in RustFunctions :
    RustDone(f) =>
      LET arms == MatchedArms(f, ctx, key) IN
      /\ Cardinality(arms) <= 1
      /\ (MatchTried(f, key) /\ f # "validate_ffc") => Cardinality(arms) = 1
      /\ \A i \in arms : result = ArmBody(f, i, ctx, key)
      /\ arms = {} => result = ArmBody(f, 0, ctx, key)
      /\ result.ok \in BOOLEAN
      /\ result.val \in Canonical(f)

\* A key with l in the range of one tier and n in the range of another: no
\* pattern of validate_ffc matches and the wildcard answers.
C14_Witness ==
  /\ RustDone("validate_ffc")
  /\ key = Ffc(2048, 225)
  /\ validate_ffc_arms(key) = {}
  /\ result = Err(FFC_2048_224)

\* The family operation of the standard S that the variant of k names,
\* applied to the payload of k.
FamilyResult(S, c, k) ==
  IF k.variant = "Ecc" THEN S.validate_ecc[<<c, k.payload>>]
  ELSE IF k.variant = "Ifc" THEN S.validate_ifc[<<c, k.payload>>]
  ELSE S.validate_ffc[<<c, k.payload>>]

\* The standards whose operation for the family of k is the one of S.
SameFamilyOperation(S, k) ==
  {T \in Standards :
     IF k.variant = "Ecc" THEN T.validate_ecc = S.validate_ecc
     ELSE IF k.variant = "Ifc" THEN T.validate_ifc = S.validate_ifc
     ELSE T.validate_ffc = S.validate_ffc}

(* C15: validate_asymmetric dispatches on the variant of its input and     *)
(* keeps verdict and family.  For a key of variant F with payload x the    *)
(* result is Compliant exactly when validate_F(ctx, x) is, the returned    *)
(* Asymmetric has variant F and carries the primitive validate_F returned, *)
(* and a standard with the same validate_F and any other two family        *)
(* operations gives the same result.                                       *)
C15_AsymmetricDispatch ==
  RustDone("validate_asymmetric") =>
    LET r == FamilyResult(standard, ctx, key) IN
    /\ result.ok = r.ok
    /\ result.val.variant = key.variant
    /\ result.val.payload = r.val
    /\ \A T \in SameFamilyOperation(standard, key) :
         validate_asymmetric(T, ctx, key) = result

\* An Ifc key the standard rejects with a recommendation that is not the
\* input, under a standard whose Ecc operation would accept everything.
C15_Witness ==
  /\ RustDone("validate_asymmetric")
  /\ key = Asymmetric_Ifc(IFC_1024)
  /\ \A x \in EccInputs : standard.validate_ecc[<<ctx, x>>].ok
  /\ result = Err(Asymmetric_Ifc(IFC_2048))

====
